---------------------------- MODULE Spec2Model ----------------------------
(***************************************************************************)
(* A model of the numeral-parsing core of musana:                          *)
(*   - experiment.py      : Degree arithmetic and parsing,                 *)
(*                          SingleNumeralParts.parse (the DCML regex)      *)
(*   - harmonytypes/numeral.py : SimpleNumeral, NumeralChain               *)
(* Python strings are TLA+ strings; Python objects are records carrying a  *)
(* "tag" field; a raised exception is a record tagged "Error".             *)
(*                                                                         *)
(* The program is a library of functions without global state.  A state    *)
(* of the model is one call site: the arguments (self, other, numeral_str, *)
(* key), the object built so far (obj), the value last returned (ret) and  *)
(* the position of the caller (pc).                                        *)
(***************************************************************************)
EXTENDS Integers, Sequences, FiniteSets, TLC

VARIABLES pc, self, other, numeral_str, key, obj, ret

vars == <<pc, self, other, numeral_str, key, obj, ret>>

(***************************************************************************)
(* Bounds of the model.                                                    *)
(***************************************************************************)
\* operands of the arithmetic have number in -MaxNumber..MaxNumber
MaxNumber == 8
\* ... and alteration in -MaxAlt..MaxAlt
MaxAlt == 1
\* strings handed to parse_arabic_degree / parse_numeral_degree: length <= MaxDegreeLen
MaxDegreeLen == 3
\* tone lists inside the parentheses of a numeral: at most MaxTones items
MaxTones == 2
\* relative-root chains a/b/...: at most MaxSeps separators "/"
MaxSeps == 2
\* keys handed to NumeralChain.parse: tonic within MaxTonic fifths of C
MaxTonic == 1

\* the longest sequence given to Sequential.from_sequence
MaxSeqLen == 3

(***************************************************************************)
(* Python values.                                                          *)
(***************************************************************************)
None == [tag |-> "None"]

Error(type) == [tag |-> "Error", type |-> type]

IsError(v) == v.tag = "Error"

IsNone(v) == v.tag = "None"

\* a Python str value (so that a field holding None can be told from one holding '')
Str(t) == [tag |-> "str", text |-> t]

(***************************************************************************)
(* String helpers (Python str methods and slicing).                        *)
(***************************************************************************)
\* the character of s at 1-based position i, '' past the end
CharAt(s, i) == IF i \in 1..Len(s) THEN SubSeq(s, i, i) ELSE ""

\* every string over the characters cs of length at most n
RECURSIVE Strings(_, _)
Strings(cs, n) ==
    IF n = 0 THEN {""}
    ELSE LET S == Strings(cs, n - 1) IN S \cup {s \o c : s \in S, c \in cs}

\* s.startswith(t, i-1)
StartsAt(s, i, t) == i + Len(t) - 1 <= Len(s) /\ SubSeq(s, i, i + Len(t) - 1) = t

\* t in s, for a one-character t
Contains(s, c) == \E i \in 1..Len(s) : CharAt(s, i) = c

\* the number of leading characters of s, from position i, that are in set cs
RECURSIVE RunLen(_, _, _)
RunLen(s, i, cs) ==
    IF i <= Len(s) /\ CharAt(s, i) \in cs THEN 1 + RunLen(s, i + 1, cs) ELSE 0

Digits == {"0", "1", "2", "3", "4", "5", "6", "7", "8", "9"}

DigitVal(c) ==
    CASE c = "0" -> 0 [] c = "1" -> 1 [] c = "2" -> 2 [] c = "3" -> 3 [] c = "4" -> 4
      [] c = "5" -> 5 [] c = "6" -> 6 [] c = "7" -> 7 [] c = "8" -> 8 [] c = "9" -> 9

\* int(s) for a non-empty string of ASCII digits
RECURSIVE IntOf(_)
IntOf(s) ==
    IF Len(s) = 0 THEN 0
    ELSE 10 * IntOf(SubSeq(s, 1, Len(s) - 1)) + DigitVal(CharAt(s, Len(s)))

\* the regex anchor $ (no MULTILINE): the end of the string, or just before a
\* newline that is the last character
AtDollar(s, i) == i = Len(s) + 1 \/ (i = Len(s) /\ CharAt(s, i) = "\n")

\* a candidate of a regex part: the position after it and what the group captured
Cand(end, val) == [tag |-> "Cand", end |-> end, val |-> val]

\* the first candidate cs[k] with oks[k], or None: a backtracking matcher tries
\* the candidates of a part in order and keeps the first one from which the
\* rest of the pattern matches (oks[k])
First(cs, oks) ==
    IF \E k \in 1..Len(cs) : oks[k]
    THEN cs[CHOOSE k \in 1..Len(cs) : oks[k] /\ \A j \in 1..(k - 1) : ~oks[j]]
    ELSE None

\* the rest of the pattern is only the anchor $
FirstAtDollar(s, cs) == First(cs, [k \in 1..Len(cs) |-> AtDollar(s, cs[k].end)])

\* the candidates of (?P<modifiers>(b*)|(#*))? at position i, in the matcher's
\* order: b* greedy, then #* greedy, then the group skipped (captures None).
\* bs and hs are the characters b and # stand for (more under re.I)
ModifierCands(s, i, bs, hs) ==
    LET nb == RunLen(s, i, bs)
        nh == RunLen(s, i, hs)
    IN  [k \in 1..(nb + 1) |-> Cand(i + nb - k + 1, Str(SubSeq(s, i, i + nb - k)))]
        \o [k \in 1..(nh + 1) |-> Cand(i + nh - k + 1, Str(SubSeq(s, i, i + nh - k)))]
        \o <<Cand(i, None)>>

(***************************************************************************)
(* experiment.py: class Degree                                             *)
(***************************************************************************)
Degree(number, alteration) ==
    [tag |-> "Degree", number |-> number, alteration |-> alteration]

\* Degree.__add__: the two operands as the call leaves them, and the new Degree
Degree_add_noBias(slf, oth) ==
    [self |-> slf, other |-> oth,
     ret |-> Degree(((slf.number - 1) + (oth.number - 1)) % 7, oth.alteration)]

Degree_add_selfAlt(slf, oth) ==
    [self |-> slf, other |-> oth,
     ret |-> Degree((((slf.number - 1) + (oth.number - 1)) % 7) + 1, slf.alteration)]

Degree_add_inPlace(slf, oth) ==
    LET d == Degree((((slf.number - 1) + (oth.number - 1)) % 7) + 1, oth.alteration)
    IN  [self |-> d, other |-> oth, ret |-> d]

Degree_add(slf, oth) ==
    [self |-> slf, other |-> oth,
     ret |-> Degree((((slf.number - 1) + (oth.number - 1)) % 7) + 1, oth.alteration)]

\* Degree.__sub__
Degree_sub(slf, oth) ==
    [self |-> slf, other |-> oth,
     ret |-> Degree((((slf.number - 1) - (oth.number - 1)) % 7) + 1, oth.alteration)]

\* ad_regex.match(s): "^((?P<modifiers>(b*)|(#*))?(?P<number>([0-9]+)))$".
\* The groups of the match, or None.
ad_regex_match(s) ==
    LET NumberCands(i) ==
            LET n == RunLen(s, i, Digits)
            IN  [k \in 1..n |-> Cand(i + n - k + 1, Str(SubSeq(s, i, i + n - k)))]
        Number(i) == FirstAtDollar(s, NumberCands(i))
        mods == ModifierCands(s, 1, {"b"}, {"#"})
        m == First(mods, [k \in 1..Len(mods) |-> ~IsNone(Number(mods[k].end))])
    IN  IF IsNone(m) THEN None
        ELSE [tag |-> "Match", modifiers |-> m.val, number |-> Number(m.end).val]

\* Degree.parse_arabic_degree
Degree_parse_arabic_degree(arabic_degree) ==
    LET ad_match == ad_regex_match(arabic_degree)
        number_match == ad_match.number
        modifiers_match == ad_match.modifiers
        alteration == IF Contains(modifiers_match.text, "#")
                      THEN Len(modifiers_match.text)
                      ELSE -Len(modifiers_match.text)
    IN  IF IsNone(ad_match) THEN Error("ValueError")
        ELSE IF IsNone(modifiers_match) THEN Error("TypeError")
        ELSE Degree(IntOf(number_match.text), alteration)

\* Degree.numeral_scale_degree_dict: the table wrapped in typing.ClassVar[...],
\* which makes the class attribute a typing alias object, not a dict
numeral_scale_degree_table ==
    [i |-> 1, ii |-> 2, iii |-> 3, iv |-> 4, v |-> 5, vi |-> 6, vii |-> 7,
     I |-> 1, II |-> 2, III |-> 3, IV |-> 4, V |-> 5, VI |-> 6, VII |-> 7]

numeral_scale_degree_dict ==
    [tag |-> "typing.ClassVar", args |-> numeral_scale_degree_table]

\* obj.get(k): dict.get on a dict (None for a missing key); a typing alias
\* forwards the attribute to typing.ClassVar, which has none: AttributeError
Get(d, k) ==
    IF d.tag = "dict"
    THEN IF k \in DOMAIN d.items THEN Str(d.items[k]) ELSE None
    ELSE Error("AttributeError")

UpperOf(c) ==
    CASE c = "b" -> "B" [] c = "i" -> "I" [] c = "v" -> "V" [] OTHER -> c

LowerOf(c) ==
    CASE c = "B" -> "b" [] c = "I" -> "i" [] c = "V" -> "v" [] OTHER -> c

\* the characters a pattern character matches under re.I
AnyCase(c) == {UpperOf(c), LowerOf(c)}

\* nd_regex.match(s): "^(?P<modifiers>(b*)|(#*))(?P<roman_numeral>(IV|V?I{0,3}))$"
\* compiled with re.I.  The groups of the match, or None.
nd_regex_match(s) ==
    LET RomanCands(i) ==
            LET iv == IF i + 1 <= Len(s) /\ CharAt(s, i) \in AnyCase("I")
                         /\ CharAt(s, i + 1) \in AnyCase("V")
                      THEN <<Cand(i + 2, Str(SubSeq(s, i, i + 1)))>> ELSE <<>>
                WithV(j) ==  \* I{0,3} greedy from j, the group starting at i
                    LET n == RunLen(s, j, AnyCase("I"))
                        m == IF n > 3 THEN 3 ELSE n
                    IN  [k \in 1..(m + 1) |->
                            Cand(j + m - k + 1, Str(SubSeq(s, i, j + m - k)))]
                v == IF i <= Len(s) /\ CharAt(s, i) \in AnyCase("V")
                     THEN WithV(i + 1) ELSE <<>>
            IN  iv \o v \o WithV(i)
        Roman(i) == FirstAtDollar(s, RomanCands(i))
        \* the group is not optional here: no candidate that skips it
        all == ModifierCands(s, 1, AnyCase("b"), {"#"})
        mods == SubSeq(all, 1, Len(all) - 1)
        m == First(mods, [k \in 1..Len(mods) |-> ~IsNone(Roman(mods[k].end))])
    IN  IF IsNone(m) THEN None
        ELSE [tag |-> "Match", modifiers |-> m.val, roman_numeral |-> Roman(m.end).val]

\* Degree.parse_numeral_degree
Degree_parse_numeral_degree(numeral_degree) ==
    LET nd_match == nd_regex_match(numeral_degree)
        rn_match == nd_match.roman_numeral
        degree_number == Get(numeral_scale_degree_dict, rn_match.text)
        modifiers_match == nd_match.modifiers
        \* SpelledPitchClass('C' + modifiers).alteration(): +1 per #, -1 per b
        degree_alteration == IF Contains(modifiers_match.text, "#")
                             THEN Len(modifiers_match.text)
                             ELSE -Len(modifiers_match.text)
    IN  IF IsNone(nd_match) THEN Error("TypeError")
        ELSE IF IsError(degree_number) THEN degree_number
        ELSE Degree(IF IsNone(degree_number) THEN None ELSE degree_number.text,
                    degree_alteration)


(***************************************************************************)
(* experiment.py: class SingleNumeralParts                                 *)
(***************************************************************************)
\* the alternatives of a regex group (t1|t2|...) that match at position i, in
\* the order the matcher tries them
RECURSIVE TokenCands(_, _, _)
TokenCands(s, i, toks) ==
    IF toks = <<>> THEN <<>>
    ELSE (IF StartsAt(s, i, Head(toks))
          THEN <<Cand(i + Len(Head(toks)), Str(Head(toks)))>> ELSE <<>>)
         \o TokenCands(s, i, Tail(toks))

\* (group)?: the group's candidates first, then the group skipped
Optional(cands, i) == cands \o <<Cand(i, None)>>

RomanNumeralTokens ==
    <<"VII", "VI", "V", "IV", "III", "II", "I",
      "vii", "vi", "v", "iv", "iii", "ii", "i", "Ger", "It", "Fr", "@none">>

FormTokens == <<"%", "o", "+", "M", "+M">>

FigbassTokens == <<"7", "65", "43", "42", "2", "64", "6">>

Accidentals == {"#", "b"}

Steps2to8 == {"2", "3", "4", "5", "6", "7", "8"}

\* the length of one item of a tone list at position j, 0 when there is none:
\*   "added"       (\+)([#b])?([2-8])
\*   "compound"    ([#b])?(9|1[0-4])
\*   "replacement" ([#b])?([2-8])
ToneItemLen(s, j, kind) ==
    LET sign == IF kind = "added" THEN 1 ELSE 0
        acc == IF CharAt(s, j + sign) \in Accidentals THEN 1 ELSE 0
        k == j + sign + acc
    IN  IF kind = "added" /\ CharAt(s, j) # "+" THEN 0
        ELSE IF kind = "compound"
        THEN IF CharAt(s, k) = "9" THEN acc + 1
             ELSE IF CharAt(s, k) = "1" /\ CharAt(s, k + 1) \in {"0", "1", "2", "3", "4"}
             THEN acc + 2
             ELSE 0
        ELSE IF CharAt(s, k) \in Steps2to8 THEN sign + acc + 1 ELSE 0

\* (item)+ from position i, the group starting at position g: one candidate per
\* number of items, the most items first (greedy)
RECURSIVE ToneListCands(_, _, _, _)
ToneListCands(s, g, i, kind) ==
    LET n == ToneItemLen(s, i, kind)
    IN  IF n = 0 THEN <<>>
        ELSE ToneListCands(s, g, i + n, kind) \o <<Cand(i + n, Str(SubSeq(s, g, i + n - 1)))>>

\* a candidate of the parenthesized group: where it ends and both tone groups
ParenCand(end, added, replacement) ==
    [tag |-> "Cand", end |-> end, added_tones |-> added, replacement_tones |-> replacement]

\* the candidates among inner[k..] that are followed by the closing "\)", each
\* ending after it
RECURSIVE Closed(_, _, _)
Closed(s, inner, k) ==
    IF k > Len(inner) THEN <<>>
    ELSE (IF CharAt(s, inner[k].end) = ")"
          THEN <<ParenCand(inner[k].end + 1, inner[k].added_tones,
                           inner[k].replacement_tones)>>
          ELSE <<>>) \o Closed(s, inner, k + 1)

\* the candidates of
\*   (\(((?P<added_tones>((\+)([#b])?([2-8]))+|(([#b])?(9|1[0-4]))+)?|
\*       (?P<replacement_tones>(([#b])?([2-8]))+)?)\))?
\* at position i
ParenCands(s, i) ==
    LET added == Optional(ToneListCands(s, i + 1, i + 1, "added")
                          \o ToneListCands(s, i + 1, i + 1, "compound"), i + 1)
        replacement == Optional(ToneListCands(s, i + 1, i + 1, "replacement"), i + 1)
        inner == [k \in 1..Len(added) |-> ParenCand(added[k].end, added[k].val, None)]
                 \o [k \in 1..Len(replacement) |->
                        ParenCand(replacement[k].end, None, replacement[k].val)]
    IN  (IF CharAt(s, i) = "(" THEN Closed(s, inner, 1) ELSE <<>>)
        \o <<ParenCand(i, None, None)>>

\* the match of a part and of the rest of the pattern after it: the first
\* candidate cs[k] after which the rest matches (rest[k], the groups captured
\* by the rest, is not None), its capture added as group `name`; None when
\* there is no such candidate
Captured(cs, rest, k, name) ==
    IF k = 0 THEN None ELSE (name :> cs[k].val) @@ rest[k]

FirstIndex(oks) ==
    IF \E k \in DOMAIN oks : oks[k]
    THEN CHOOSE k \in DOMAIN oks : oks[k] /\ \A j \in 1..(k - 1) : ~oks[j]
    ELSE 0

ThenRest(cs, rest, name) ==
    Captured(cs, rest, FirstIndex([k \in 1..Len(cs) |-> ~IsNone(rest[k])]), name)

\* _sn_regex from position i on, one operator per part of the pattern
sn_Paren(s, i) ==
    LET c == FirstAtDollar(s, ParenCands(s, i))
    IN  IF IsNone(c) THEN None
        ELSE [tag |-> "Match", added_tones |-> c.added_tones,
              replacement_tones |-> c.replacement_tones]

sn_Figbass(s, i) ==
    LET cs == Optional(TokenCands(s, i, FigbassTokens), i)
    IN  ThenRest(cs, [k \in 1..Len(cs) |-> sn_Paren(s, cs[k].end)], "figbass")

sn_Form(s, i) ==
    LET cs == Optional(TokenCands(s, i, FormTokens), i)
    IN  ThenRest(cs, [k \in 1..Len(cs) |-> sn_Figbass(s, cs[k].end)], "form")

sn_RomanNumeral(s, i) ==
    LET cs == TokenCands(s, i, RomanNumeralTokens)
    IN  ThenRest(cs, [k \in 1..Len(cs) |-> sn_Form(s, cs[k].end)], "roman_numeral")

\* SingleNumeralParts._sn_regex.match(s): the named groups of the match, or None
sn_regex_match(s) ==
    LET cs == ModifierCands(s, 1, {"b"}, {"#"})
    IN  ThenRest(cs, [k \in 1..Len(cs) |-> sn_RomanNumeral(s, cs[k].end)], "modifiers")

SingleNumeralParts(modifiers, roman_numeral, form, figbass, added_tones, replacement_tones) ==
    [tag |-> "SingleNumeralParts", modifiers |-> modifiers,
     roman_numeral |-> roman_numeral, form |-> form, figbass |-> figbass,
     added_tones |-> added_tones, replacement_tones |-> replacement_tones]

\* x if x else '': None and '' are both falsy
OrEmpty(x) == IF ~IsNone(x) /\ x.text # "" THEN x ELSE Str("")

\* SingleNumeralParts.parse
SingleNumeralParts_parse_raw(s) ==
    LET s_numeral_match == sn_regex_match(s)
    IN  IF IsNone(s_numeral_match) THEN Error("ValueError")
        ELSE SingleNumeralParts(s_numeral_match.modifiers,
                                s_numeral_match.roman_numeral,
                                s_numeral_match.form,
                                s_numeral_match.figbass,
                                s_numeral_match.added_tones,
                                s_numeral_match.replacement_tones)

SingleNumeralParts_parse(s) ==
    LET s_numeral_match == sn_regex_match(s)
    IN  IF IsNone(s_numeral_match) THEN Error("ValueError")
        ELSE SingleNumeralParts(OrEmpty(s_numeral_match.modifiers),
                                s_numeral_match.roman_numeral,
                                OrEmpty(s_numeral_match.form),
                                OrEmpty(s_numeral_match.figbass),
                                OrEmpty(s_numeral_match.added_tones),
                                OrEmpty(s_numeral_match.replacement_tones))

(***************************************************************************)
(* pitchtypes.SpelledPitchClass (external library): a spelled pitch class  *)
(* is its position on the line of fifths, ... Bb F C G D A E B F# ...,     *)
(* C at 0; one sharp is +7, one flat -7.                                   *)
(***************************************************************************)
SpelledPitchClass(name) ==
    LET letter == CharAt(name, 1)
        natural == CASE letter = "F" -> -1 [] letter = "C" -> 0 [] letter = "G" -> 1
                     [] letter = "D" -> 2 [] letter = "A" -> 3 [] letter = "E" -> 4
                     [] letter = "B" -> 5
        accidentals == SubSeq(name, 2, Len(name))
    IN  natural + 7 * (IF Contains(accidentals, "#") THEN Len(accidentals)
                       ELSE -Len(accidentals))

(***************************************************************************)
(* harmonytypes/key.py and harmonytypes/degree.py: Key and Degree as       *)
(* numeral.py uses them.                                                   *)
(***************************************************************************)
Key(tonic, mode) == [tag |-> "Key", tonic |-> tonic, mode |-> mode]

\* the scale of each mode as fifths from the tonic, by degree number
ScaleSteps(mode) ==
    IF mode = "major" THEN <<0, 2, 4, -1, 1, 3, 5>> ELSE <<0, 2, -3, -1, 1, -4, -2>>

\* Key.get_scale
Key_get_scale(k) == [n \in 1..7 |-> k.tonic + ScaleSteps(k.mode)[n]]

Key_find_spc_diatonic(degree, k) == Key_get_scale(k)[degree.number]

\* Key.find_spc(degree, key): the scale member at degree.number, altered by
\* degree.alteration accidentals
Key_find_spc(degree, k) == Key_get_scale(k)[degree.number] + 7 * degree.alteration

\* Key.find_degree(spc): the degree whose altered scale member is spc
Key_find_degree(k, spc) ==
    LET n == CHOOSE n \in 1..7 : (spc - Key_get_scale(k)[n]) % 7 = 0
    IN  Degree(n, (spc - Key_get_scale(k)[n]) \div 7)

\* Key.from_string: an uppercase tonic letter is major, a lowercase one
\* natural minor; accidentals may follow the letter
Key_from_string(key_str) ==
    LET letter == CharAt(key_str, 1)
        upper == CASE letter = "f" -> "F" [] letter = "c" -> "C" [] letter = "g" -> "G"
                   [] letter = "d" -> "D" [] letter = "a" -> "A" [] letter = "e" -> "E"
                   [] letter = "b" -> "B" [] OTHER -> letter
    IN  Key(SpelledPitchClass(upper \o SubSeq(key_str, 2, Len(key_str))),
            IF letter = upper THEN "major" ELSE "natural_minor")

\* the roman numerals I..VII, in either case and in mixed case
RomanNumber(rn) ==
    LET u == [k \in 1..Len(rn) |-> UpperOf(CharAt(rn, k))]
    IN  CASE u = <<"I">> -> 1 [] u = <<"I", "I">> -> 2 [] u = <<"I", "I", "I">> -> 3
          [] u = <<"I", "V">> -> 4 [] u = <<"V">> -> 5 [] u = <<"V", "I">> -> 6
          [] u = <<"V", "I", "I">> -> 7 [] OTHER -> 0

\* Degree.from_string: ^(b*|#*)(roman numeral I..VII, case-insensitive)$
HT_Degree_from_string(degree_str) ==
    LET nb == RunLen(degree_str, 1, {"b"})
        nh == RunLen(degree_str, 1, {"#"})
        n == IF nb > 0 THEN nb ELSE nh
        number == RomanNumber(SubSeq(degree_str, n + 1, Len(degree_str)))
    IN  IF number = 0 THEN Error("ValueError")
        ELSE Degree(number, IF nb > 0 THEN -nb ELSE nh)

(***************************************************************************)
(* harmonytypes/numeral.py: SimpleNumeral, NumeralChain, Numeral           *)
(***************************************************************************)
UppercaseLetters ==
    {"A", "B", "C", "D", "E", "F", "G", "H", "I", "J", "K", "L", "M",
     "N", "O", "P", "Q", "R", "S", "T", "U", "V", "W", "X", "Y", "Z"}

LowercaseLetters ==
    {"a", "b", "c", "d", "e", "f", "g", "h", "i", "j", "k", "l", "m",
     "n", "o", "p", "q", "r", "s", "t", "u", "v", "w", "x", "y", "z"}

\* str.isupper(): there is a cased character and no cased character is lowercase
IsUpper(s) ==
    /\ \E i \in 1..Len(s) : CharAt(s, i) \in UppercaseLetters
    /\ \A i \in 1..Len(s) : CharAt(s, i) \notin LowercaseLetters

SimpleNumeral(s, k, degree, quality) ==
    [tag |-> "SimpleNumeral", numeral_str |-> s, key |-> k, degree |-> degree,
     quality |-> quality]

\* SimpleNumeral.from_string
SimpleNumeral_from_string(s, k) ==
    LET degree == HT_Degree_from_string(s)
        quality == IF IsUpper(s) THEN "major" ELSE "minor"
    IN  IF IsError(degree) THEN degree ELSE SimpleNumeral(s, k, degree, quality)

\* SimpleNumeral.root
SimpleNumeral_root(sn) == Key_find_spc(sn.degree, sn.key)

\* SimpleNumeral.key_if_tonicized
SimpleNumeral_key_if_tonicized(sn) ==
    IF sn.quality = "major" THEN Key(SimpleNumeral_root(sn), "major")
    ELSE IF sn.quality = "minor" THEN Key(SimpleNumeral_root(sn), "natural_minor")
    ELSE Error("ValueError")

NumeralChain(head, tail, k) ==
    [tag |-> "NumeralChain", head |-> head, tail |-> tail, key |-> k]

\* the position of the first "/" of s, 0 when there is none
FirstSlash(s) ==
    IF Contains(s, "/")
    THEN CHOOSE i \in 1..Len(s) : CharAt(s, i) = "/" /\ ~Contains(SubSeq(s, 1, i - 1), "/")
    ELSE 0

\* the position of the last "/" of s
LastSlash(s) ==
    CHOOSE i \in 1..Len(s) : CharAt(s, i) = "/" /\ ~Contains(SubSeq(s, i + 1, Len(s)), "/")

\* the node parse builds from a tail already parsed and the left-hand string
ChainNode(L_numeral_str, tail, k) ==
    IF IsError(tail) THEN tail
    ELSE LET head == SimpleNumeral_from_string(L_numeral_str,
                                               SimpleNumeral_key_if_tonicized(tail.head))
         IN  IF IsError(head) THEN head ELSE NumeralChain(head, tail, k)

ChainNode_headInOuterKey(L_numeral_str, tail, k) ==
    IF IsError(tail) THEN tail
    ELSE LET head == SimpleNumeral_from_string(L_numeral_str, k)
         IN  IF IsError(head) THEN head ELSE NumeralChain(head, tail, k)

\* the terminal node
ChainEnd(s, k) ==
    LET head == SimpleNumeral_from_string(s, k)
    IN  IF IsError(head) THEN head ELSE NumeralChain(head, None, k)

\* NumeralChain.parse
RECURSIVE NumeralChain_parse_splitLast(_, _)
NumeralChain_parse_splitLast(s, k) ==
    IF Contains(s, "/")
    THEN ChainNode(SubSeq(s, 1, LastSlash(s) - 1),
                   NumeralChain_parse_splitLast(SubSeq(s, LastSlash(s) + 1, Len(s)), k), k)
    ELSE ChainEnd(s, k)

RECURSIVE NumeralChain_parse_headInOuterKey(_, _)
NumeralChain_parse_headInOuterKey(s, k) ==
    IF Contains(s, "/")
    THEN ChainNode_headInOuterKey(SubSeq(s, 1, FirstSlash(s) - 1),
             NumeralChain_parse_headInOuterKey(SubSeq(s, FirstSlash(s) + 1, Len(s)), k), k)
    ELSE ChainEnd(s, k)

RECURSIVE NumeralChain_parse_rec(_, _)
NumeralChain_parse_rec(s, k) ==
    IF Contains(s, "/")
    THEN ChainNode(SubSeq(s, 1, FirstSlash(s) - 1),
                   NumeralChain_parse_rec(SubSeq(s, FirstSlash(s) + 1, Len(s)), k), k)
    ELSE ChainEnd(s, k)

NumeralChain_parse(s, k) == NumeralChain_parse_rec(s, k)

\* NumeralChain.key_if_tonicized
NumeralChain_key_if_tonicized(nc) == SimpleNumeral_key_if_tonicized(nc.head)

\* NumeralChain.degree
NumeralChain_degree_ofHeadKey(nc) == Key_find_degree(nc.key, nc.head.key.tonic)

NumeralChain_degree(nc) ==
    Key_find_degree(nc.key, NumeralChain_key_if_tonicized(nc).tonic)

\* Numeral.from_df, lines 148-152: the local key of a row whose globalkey
\* column gave global_key and whose localkey column is localkey
Numeral_from_df_local_key(localkey, global_key) ==
    LET chain == NumeralChain_parse(localkey, global_key)
    IN  IF IsError(chain) THEN chain
        ELSE Key(Key_find_spc(NumeralChain_degree(chain), global_key),
                 IF IsUpper(localkey) THEN "major" ELSE "natural_minor")

(***************************************************************************)
(* The Degree call sites: d1 + d2, d1 - d2, Degree.parse_arabic_degree(s), *)
(* Degree.parse_numeral_degree(s).                                         *)
(***************************************************************************)
DegreeOperands ==
    {Degree(n, a) : n \in (-MaxNumber)..MaxNumber, a \in (-MaxAlt)..MaxAlt}

DegreeAlphabet == {"b", "#", "0", "1", "7", "9", "I", "V", "i", "\n"}

DegreeStrings == Strings(DegreeAlphabet, MaxDegreeLen)

InitDegree ==
    /\ pc = "start"
    /\ \/ /\ self \in DegreeOperands
          /\ other \in DegreeOperands
          /\ numeral_str = ""
       \/ /\ self = Degree(1, 0)
          /\ other = Degree(1, 0)
          /\ numeral_str \in DegreeStrings
    /\ key = None
    /\ obj = None
    /\ ret = None

Add ==
    /\ pc = "start"
    /\ LET out == Degree_add(self, other)
       IN  self' = out.self /\ other' = out.other /\ ret' = out.ret
    /\ pc' = "__add__"
    /\ UNCHANGED <<numeral_str, key, obj>>

Sub ==
    /\ pc = "start"
    /\ LET out == Degree_sub(self, other)
       IN  self' = out.self /\ other' = out.other /\ ret' = out.ret
    /\ pc' = "__sub__"
    /\ UNCHANGED <<numeral_str, key, obj>>

ParseArabicDegree ==
    /\ pc = "start"
    /\ ret' = Degree_parse_arabic_degree(numeral_str)
    /\ pc' = "parse_arabic_degree"
    /\ UNCHANGED <<self, other, numeral_str, key, obj>>

ParseNumeralDegree ==
    /\ pc = "start"
    /\ ret' = Degree_parse_numeral_degree(numeral_str)
    /\ pc' = "parse_numeral_degree"
    /\ UNCHANGED <<self, other, numeral_str, key, obj>>

NextDegree == Add \/ Sub \/ ParseArabicDegree \/ ParseNumeralDegree

SpecDegree == InitDegree /\ [][NextDegree]_vars

IsDegree(v) == v.tag = "Degree"

\* C5: add(a,b) has number ((a.number-1)+(b.number-1)) mod 7 + 1 and b's
\* alteration, sub(a,b) has number ((a.number-1)-(b.number-1)) mod 7 + 1 and
\* b's alteration; a's alteration has no influence on the result, and the call
\* leaves both operands as they were.
C5_AddSubFormula ==
    [][/\ pc' = "__add__" =>
            /\ ret'.number = (((self.number - 1) + (other.number - 1)) % 7) + 1
            /\ ret'.alteration = other.alteration
            /\ \A x \in (-MaxAlt)..MaxAlt :
                   Degree_add([self EXCEPT !.alteration = x], other).ret = ret'
            /\ self' = self /\ other' = other
       /\ pc' = "__sub__" =>
            /\ ret'.number = (((self.number - 1) - (other.number - 1)) % 7) + 1
            /\ ret'.alteration = other.alteration
            /\ \A x \in (-MaxAlt)..MaxAlt :
                   Degree_sub([self EXCEPT !.alteration = x], other).ret = ret'
            /\ self' = self /\ other' = other]_vars

C5_Witness ==
    /\ pc = "__sub__"
    /\ self = Degree(2, 1)
    /\ other = Degree(5, -1)
    /\ ret = Degree(5, -1)

\* C6 as stated: every Degree returned by parse_arabic_degree,
\* parse_numeral_degree, add or sub has number in 1..7.
C6_AllDegreesInRange ==
    (pc \in {"__add__", "__sub__", "parse_arabic_degree", "parse_numeral_degree"}
        /\ IsDegree(ret)) => ret.number \in 1..7

\* C6 amended: every Degree returned by add or sub, on any operands, has number
\* in 1..7; a Degree returned by parse_arabic_degree has the unreduced value
\* of its digits, a natural number that may be 0, 8 or higher.
C6_ArithmeticInRange ==
    /\ pc \in {"__add__", "__sub__"} => IsDegree(ret) /\ ret.number \in 1..7
    /\ (pc = "parse_arabic_degree" /\ IsDegree(ret)) => ret.number \in Nat

C6_Witness ==
    /\ pc = "__sub__"
    /\ self.number = 0
    /\ other.number = 8
    /\ ret.number = 7

\* C7: (a+b).number = (b+a).number, (a+b).alteration = b.alteration,
\* (b+a).alteration = a.alteration, and a+b differs from b+a exactly when the
\* alterations of a and b differ.
C7_AddCommutesInNumberOnly ==
    pc = "__add__" =>
        LET ab == ret
            ba == Degree_add(other, self).ret
        IN  /\ ab.number = ba.number
            /\ ab.alteration = other.alteration
            /\ ba.alteration = self.alteration
            /\ (ab # ba) <=> (self.alteration # other.alteration)

C7_Witness ==
    /\ pc = "__add__"
    /\ self.alteration # other.alteration
    /\ self.number # other.number
    /\ ret # Degree_add(other, self).ret


(***************************************************************************)
(* The call site SingleNumeralParts.parse(numeral_str).                    *)
(***************************************************************************)
\* every concatenation of at most n of the strings ts
RECURSIVE Concats(_, _)
Concats(ts, n) ==
    IF n = 0 THEN {""}
    ELSE LET S == Concats(ts, n - 1) IN S \cup {s \o x : s \in S, x \in ts}

\* well-formed and ill-formed pieces of a numeral
SnpModifiers == {"", "b", "#", "bb", "b#"}

SnpRomanNumerals == {"V", "VII", "iv", "II", "Ger", "@none", "x"}

SnpForms == {"", "%", "o", "+", "M", "+M"}

SnpFigbass == {"", "7", "65", "2", "64", "6", "5"}

SnpToneItems == {"+2", "+#4", "9", "b13", "15", "3", "#8", "+"}

SnpEnds == {"", "\n"}

SingleNumeralStrings ==
    {m \o r \o f \o g \o p \o e :
        m \in SnpModifiers, r \in SnpRomanNumerals, f \in SnpForms,
        g \in SnpFigbass, p \in {"", "()", "(+2)", "(4)"}, e \in SnpEnds}
    \cup
    {h \o "(" \o p \o c \o e :
        h \in {"V", "bII6", "V7", "I+"}, p \in Concats(SnpToneItems, MaxTones),
        c \in {")", ""}, e \in SnpEnds}

InitParts ==
    /\ pc = "start"
    /\ self = None
    /\ other = None
    /\ numeral_str \in SingleNumeralStrings
    /\ key = None
    /\ obj = None
    /\ ret = None

ParseSingleNumeral ==
    /\ pc = "start"
    /\ ret' = SingleNumeralParts_parse(numeral_str)
    /\ pc' = "SingleNumeralParts.parse"
    /\ UNCHANGED <<self, other, numeral_str, key, obj>>

NextParts == ParseSingleNumeral

SpecParts == InitParts /\ [][NextParts]_vars

IsStr(v) == v.tag = "str"

Parsed == pc = "SingleNumeralParts.parse" /\ ret.tag = "SingleNumeralParts"

\* C8: a result of SingleNumeralParts.parse holds a string in every field, the
\* empty string for each group the match left out, and a non-empty
\* roman_numeral; "bII6" gives modifiers "b", roman_numeral "II", figbass "6"
\* and the empty string in the other fields.
C8_FieldsAreStrings ==
    /\ Parsed =>
        LET groups == sn_regex_match(numeral_str)
            Field(name) ==
                /\ IsStr(ret[name])
                /\ IsNone(groups[name]) => ret[name].text = ""
                /\ ~IsNone(groups[name]) => ret[name].text = groups[name].text
        IN  /\ \A name \in {"modifiers", "roman_numeral", "form", "figbass",
                            "added_tones", "replacement_tones"} : Field(name)
            /\ ret.roman_numeral.text # ""
    /\ (pc = "SingleNumeralParts.parse" /\ numeral_str = "bII6") =>
        ret = SingleNumeralParts(Str("b"), Str("II"), Str(""), Str("6"), Str(""), Str(""))

C8_Witness ==
    /\ Parsed
    /\ numeral_str = "bII6"
    /\ IsNone(sn_regex_match(numeral_str).form)
    /\ ret.form = Str("")

\* the text between the first "(" of s and a ")" that ends s, when s has that
\* shape: the parenthesized group of a numeral string
HasParenGroup(s) ==
    /\ Contains(s, "(")
    /\ CharAt(s, Len(s)) = ")"

ParenOpen(s) == CHOOSE i \in 1..Len(s) : CharAt(s, i) = "(" /\ ~Contains(SubSeq(s, 1, i - 1), "(")

ParenContent(s) == SubSeq(s, ParenOpen(s) + 1, Len(s) - 1)

\* t is one or more items of the given kind and nothing else
MadeOf(t, kind) ==
    LET cs == ToneListCands(t, 1, 1, kind)
    IN  cs # <<>> /\ cs[1].end = Len(t) + 1

\* C9 as stated: at most one of added_tones and replacement_tones is non-empty;
\* a parenthesized group of '+[#b]?[2-8]' items or of '[#b]?(9|1[0-4])' items
\* is captured as added_tones only, one of '[#b]?[2-8]' items as
\* replacement_tones only ("V7(+2)": figbass "7", added_tones "+2"), and a
\* parenthesized group matching neither alternative makes the parse fail.
C9_ToneGroupsExclusive ==
    pc = "SingleNumeralParts.parse" =>
        /\ Parsed => ~(ret.added_tones.text # "" /\ ret.replacement_tones.text # "")
        /\ numeral_str = "V7(+2)" =>
              Parsed /\ ret.figbass = Str("7") /\ ret.added_tones = Str("+2")
        /\ (Parsed /\ HasParenGroup(numeral_str)) =>
              LET c == ParenContent(numeral_str)
              IN  /\ (MadeOf(c, "added") \/ MadeOf(c, "compound")) =>
                        ret.added_tones = Str(c) /\ ret.replacement_tones = Str("")
                  /\ MadeOf(c, "replacement") =>
                        ret.replacement_tones = Str(c) /\ ret.added_tones = Str("")
        /\ (HasParenGroup(numeral_str)
              /\ LET c == ParenContent(numeral_str)
                 IN  ~MadeOf(c, "added") /\ ~MadeOf(c, "compound")
                       /\ ~MadeOf(c, "replacement")) => IsError(ret)

\* the fields of a parse result put back together in grammar order, the tone
\* group inside its parentheses when there is one
Reconstruct(parts) ==
    parts.modifiers.text \o parts.roman_numeral.text \o parts.form.text
      \o parts.figbass.text
      \o (IF parts.added_tones.text # "" THEN "(" \o parts.added_tones.text \o ")"
          ELSE IF parts.replacement_tones.text # ""
          THEN "(" \o parts.replacement_tones.text \o ")"
          ELSE "")

\* C10 as stated: for every accepted string the captured fields, concatenated
\* in grammar order, reconstruct the string exactly; a string with characters
\* outside the captured fields is rejected.
C10_FieldsReconstructInput ==
    Parsed => Reconstruct(ret) = numeral_str

(***************************************************************************)
(* The numeral.py call sites: SimpleNumeral.from_string(numeral_str, key)  *)
(* and key_if_tonicized() on it; NumeralChain.parse(numeral_str, key),     *)
(* then key_if_tonicized() and degree() on the chain (as test2 does);      *)
(* Numeral.from_df on a row with localkey numeral_str and global key key.  *)
(***************************************************************************)
\* one segment of a chain string: well-formed numerals and an ill-formed one
ChainSegments == {"I", "V", "ii", "vi", "bII", "#IV", ""}

\* segments joined by "/", at most n separators
RECURSIVE ChainStrings(_)
ChainStrings(n) ==
    IF n = 0 THEN ChainSegments
    ELSE ChainStrings(n - 1)
           \cup {a \o "/" \o r : a \in ChainSegments, r \in ChainStrings(n - 1)}

Modes == {"major", "natural_minor"}

Keys == {Key(tonic, mode) : tonic \in (-MaxTonic)..MaxTonic, mode \in Modes}

InitChain ==
    /\ pc = "start"
    /\ self = None
    /\ other = None
    /\ numeral_str \in ChainStrings(MaxSeps)
    /\ key \in Keys
    /\ obj = None
    /\ ret = None

\* sn = SimpleNumeral.from_string(numeral_str, key)
FromString ==
    /\ pc = "start"
    /\ obj' = SimpleNumeral_from_string(numeral_str, key)
    /\ pc' = IF IsError(obj') THEN "raised" ELSE "SimpleNumeral"
    /\ UNCHANGED <<self, other, numeral_str, key, ret>>

\* sn.key_if_tonicized()
TonicizeNumeral ==
    /\ pc = "SimpleNumeral"
    /\ ret' = SimpleNumeral_key_if_tonicized(obj)
    /\ pc' = "SimpleNumeral.key_if_tonicized"
    /\ UNCHANGED <<self, other, numeral_str, key, obj>>

\* nc = NumeralChain.parse(numeral_str, key)
ParseChain ==
    /\ pc = "start"
    /\ obj' = NumeralChain_parse(numeral_str, key)
    /\ pc' = IF IsError(obj') THEN "raised" ELSE "NumeralChain"
    /\ UNCHANGED <<self, other, numeral_str, key, ret>>

\* nc.key_if_tonicized()
TonicizeChain ==
    /\ pc = "NumeralChain"
    /\ ret' = NumeralChain_key_if_tonicized(obj)
    /\ pc' = "NumeralChain.key_if_tonicized"
    /\ UNCHANGED <<self, other, numeral_str, key, obj>>

\* nc.degree()
ChainDegree ==
    /\ pc \in {"NumeralChain", "NumeralChain.key_if_tonicized"}
    /\ ret' = NumeralChain_degree(obj)
    /\ pc' = "NumeralChain.degree"
    /\ UNCHANGED <<self, other, numeral_str, key, obj>>

\* Numeral.from_df up to the local key
FromDfLocalKey ==
    /\ pc = "start"
    /\ ret' = Numeral_from_df_local_key(numeral_str, key)
    /\ pc' = IF IsError(ret') THEN "raised" ELSE "Numeral.from_df"
    /\ UNCHANGED <<self, other, numeral_str, key, obj>>

NextChain ==
    \/ FromString
    \/ TonicizeNumeral
    \/ ParseChain
    \/ TonicizeChain
    \/ ChainDegree
    \/ FromDfLocalKey

SpecChain == InitChain /\ [][NextChain]_vars

\* the number of separators "/" in s
CountSlashes(s) == Cardinality({i \in 1..Len(s) : CharAt(s, i) = "/"})

\* the i-th of the segments of s that the separators "/" delimit
RECURSIVE Segment(_, _)
Segment(s, i) ==
    IF i = 1
    THEN IF FirstSlash(s) = 0 THEN s ELSE SubSeq(s, 1, FirstSlash(s) - 1)
    ELSE Segment(SubSeq(s, FirstSlash(s) + 1, Len(s)), i - 1)

\* the nodes of a chain, the outermost first
RECURSIVE ChainNodes(_)
ChainNodes(nc) == IF IsNone(nc.tail) THEN <<nc>> ELSE <<nc>> \o ChainNodes(nc.tail)

IsTestChain == numeral_str = "ii/V" /\ key = Key_from_string("C")

\* C1 as stated: for "ii/V" in C the chain resolves V as tonic D major and ii
\* of it to E, so key_if_tonicized().tonic is E and degree() is number 5.
C1_TonicEDegree5 ==
    IsTestChain =>
        /\ pc = "NumeralChain" =>
              /\ SimpleNumeral_key_if_tonicized(obj.tail.head)
                    = Key(SpelledPitchClass("D"), "major")
              /\ SimpleNumeral_root(obj.head) = SpelledPitchClass("E")
        /\ pc = "NumeralChain.key_if_tonicized" => ret.tonic = SpelledPitchClass("E")
        /\ pc = "NumeralChain.degree" => ret.number = 5

\* C1 amended: for "ii/V" in C the chain resolves V as tonic G major and ii of
\* it to A, so key_if_tonicized().tonic is A and degree() is the position of
\* A in C, degree number 6.
C1_TonicADegree6 ==
    IsTestChain =>
        /\ pc = "NumeralChain" =>
              /\ SimpleNumeral_key_if_tonicized(obj.tail.head)
                    = Key(SpelledPitchClass("G"), "major")
              /\ SimpleNumeral_root(obj.head) = SpelledPitchClass("A")
        /\ pc = "NumeralChain.key_if_tonicized" => ret.tonic = SpelledPitchClass("A")
        /\ pc = "NumeralChain.degree" => ret = Degree(6, 0)

C1_Witness ==
    /\ IsTestChain
    /\ pc = "NumeralChain.key_if_tonicized"
    /\ ret = Key(SpelledPitchClass("A"), "natural_minor")

\* C2: degree() of a parsed chain is the degree, in the key k given to parse,
\* of the tonic of the head numeral's tonicized key; it is degree number 6 for
\* "ii/V" in C major.
C2_DegreeOfTonicizedHead ==
    pc = "NumeralChain.degree" =>
        /\ ret = Key_find_degree(key, SimpleNumeral_key_if_tonicized(obj.head).tonic)
        /\ Key_find_spc(ret, key) = SimpleNumeral_root(obj.head)
        /\ IsTestChain => ret.number = 6

C2_Witness ==
    /\ pc = "NumeralChain.degree"
    /\ IsTestChain
    /\ obj.head.key # key
    /\ ret.number = 6

\* C3: parse(s, k) on a string with n separators splits at the first "/" and
\* resolves the remainder first against k; it builds a chain of n+1 nodes, one
\* per segment in order, whose terminal node has tail None and a head
\* interpreted in k, whose other heads are interpreted in
\* tail.head.key_if_tonicized(), and whose nodes all have key k.
C3_ChainShape ==
    LET n == CountSlashes(numeral_str)
    IN  /\ pc = "NumeralChain" =>
              LET nodes == ChainNodes(obj)
              IN  /\ Len(nodes) = n + 1
                  /\ IsNone(nodes[n + 1].tail)
                  /\ nodes[n + 1].head.key = key
                  /\ \A i \in 1..(n + 1) :
                        /\ nodes[i].key = key
                        /\ nodes[i].head.numeral_str = Segment(numeral_str, i)
                  /\ \A i \in 1..n :
                        /\ nodes[i].tail = nodes[i + 1]
                        /\ nodes[i].head.key
                              = SimpleNumeral_key_if_tonicized(nodes[i + 1].head)
        /\ (pc = "start"
              /\ \A i \in 1..(n + 1) :
                    ~IsError(HT_Degree_from_string(Segment(numeral_str, i))))
              => ~IsError(NumeralChain_parse(numeral_str, key))

C3_Witness ==
    /\ pc = "NumeralChain"
    /\ numeral_str = "ii/V/V"
    /\ Len(ChainNodes(obj)) = 3
    /\ obj.head.key # obj.tail.head.key
    /\ obj.tail.head.key # key

\* the case of the roman-numeral letters alone
IsUpperRoman(s) ==
    /\ \E i \in 1..Len(s) : CharAt(s, i) \in {"I", "V"}
    /\ \A i \in 1..Len(s) : CharAt(s, i) \notin {"i", "v"}

\* C4 as stated: from_string gives quality "major" exactly when the
\* roman-numeral letters of the string are uppercase, whatever the accidentals
\* ("bII", "#IV" major, "ii" minor); key_if_tonicized() is then a major key
\* on the root for major quality and a natural_minor key on it for minor
\* quality; the same letter-case rule gives the local key's mode in from_df.
C4_QualityFromRomanCase ==
    /\ pc = "SimpleNumeral" =>
          obj.quality = (IF IsUpperRoman(numeral_str) THEN "major" ELSE "minor")
    /\ pc = "SimpleNumeral.key_if_tonicized" =>
          ret = Key(SimpleNumeral_root(obj),
                    IF IsUpperRoman(numeral_str) THEN "major" ELSE "natural_minor")
    /\ pc = "Numeral.from_df" =>
          ret.mode = (IF IsUpperRoman(numeral_str) THEN "major" ELSE "natural_minor")

(***************************************************************************)
(* The grammars of the three parsers, as sets of strings.                  *)
(***************************************************************************)
\* a run of all '#' or all 'b', possibly empty
IsAccidentalRun(s) ==
    \/ \A i \in 1..Len(s) : CharAt(s, i) = "#"
    \/ \A i \in 1..Len(s) : CharAt(s, i) = "b"

\* an accidental run followed by one or more decimal digits
ArabicGrammar(s) ==
    \E n \in 0..(Len(s) - 1) :
        /\ IsAccidentalRun(SubSeq(s, 1, n))
        /\ \A i \in (n + 1)..Len(s) : CharAt(s, i) \in Digits

\* an accidental run followed by a roman numeral I..VII in upper or lower case
RomanGrammar(s) ==
    \E n \in 0..Len(s) :
        /\ IsAccidentalRun(SubSeq(s, 1, n))
        /\ SubSeq(s, n + 1, Len(s)) \in DOMAIN numeral_scale_degree_table

Tokens(toks) == {toks[i] : i \in DOMAIN toks}

\* modifiers, roman numeral, optional form, optional figbass, and an optional
\* parenthesized list of one or more tone items of one kind
NumeralGrammar(s) ==
    \E n \in 0..Len(s), r \in Tokens(RomanNumeralTokens),
       f \in Tokens(FormTokens) \cup {""}, g \in Tokens(FigbassTokens) \cup {""} :
        /\ IsAccidentalRun(SubSeq(s, 1, n))
        /\ LET h == SubSeq(s, 1, n) \o r \o f \o g
           IN  \/ s = h
               \/ /\ StartsAt(s, 1, h \o "(")
                  /\ Len(s) >= Len(h) + 2
                  /\ CharAt(s, Len(s)) = ")"
                  /\ LET c == SubSeq(s, Len(h) + 2, Len(s) - 1)
                     IN  \/ MadeOf(c, "added")
                         \/ MadeOf(c, "compound")
                         \/ MadeOf(c, "replacement")

\* C11 as stated: every malformed input (invalid, empty or out-of-table roman
\* numeral, mixed accidental run, a string outside the numeral grammar) makes
\* parse_numeral_degree, parse_arabic_degree and SingleNumeralParts.parse
\* raise at that call, and no call returns a partially filled object.
C11_MalformedInputRaises ==
    /\ (pc = "parse_arabic_degree" /\ ~ArabicGrammar(numeral_str)) => IsError(ret)
    /\ (pc = "parse_numeral_degree" /\ ~RomanGrammar(numeral_str)) => IsError(ret)
    /\ (pc = "SingleNumeralParts.parse" /\ ~NumeralGrammar(numeral_str)) => IsError(ret)
    /\ Parsed =>
          /\ \A name \in {"modifiers", "roman_numeral", "form", "figbass",
                          "added_tones", "replacement_tones"} : IsStr(ret[name])
          /\ ret.roman_numeral.text # ""

\* C12 as stated: for every string accepted by the roman-degree parser (an
\* accidental run followed by a roman numeral I..VII in upper or lower case)
\* the resulting Degree has the table value of the numeral as number and +1
\* per '#', -1 per 'b' as alteration.
C12_RomanDegreeFromTable ==
    (pc = "parse_numeral_degree" /\ RomanGrammar(numeral_str)) =>
        LET nb == RunLen(numeral_str, 1, {"b"})
            nh == RunLen(numeral_str, 1, {"#"})
            rn == SubSeq(numeral_str, nb + nh + 1, Len(numeral_str))
        IN  /\ IsDegree(ret)
            /\ ret.number = numeral_scale_degree_table[rn]
            /\ ret.alteration = nh - nb

\* C13 as stated: parse_arabic_degree accepts exactly the strings made of an
\* accidental run (all '#' or all 'b', possibly empty) and one or more decimal
\* digits; the result has alteration +len(run) for '#', -len(run) for 'b', and
\* the integer value of the digits, unreduced, as number; every other string
\* is rejected with an error.
C13_ArabicDegreeExact ==
    pc = "parse_arabic_degree" =>
        /\ IsDegree(ret) <=> ArabicGrammar(numeral_str)
        /\ ~ArabicGrammar(numeral_str) => IsError(ret)
        /\ ArabicGrammar(numeral_str) =>
              LET nb == RunLen(numeral_str, 1, {"b"})
                  nh == RunLen(numeral_str, 1, {"#"})
              IN  /\ ret.alteration = nh - nb
                  /\ ret.number = IntOf(SubSeq(numeral_str, nb + nh + 1, Len(numeral_str)))

(***************************************************************************)
(* The Key call sites of numeral.py on their own: spc = key.find_spc(d),   *)
(* as SimpleNumeral.root does, then key.find_degree(spc), as               *)
(* NumeralChain.degree does.                                               *)
(***************************************************************************)
\* a SpelledPitchClass object held in a variable
Spc(fifths) == [tag |-> "SpelledPitchClass", fifths |-> fifths]

ScaleDegrees == {Degree(n, a) : n \in 1..7, a \in (-MaxAlt)..MaxAlt}

InitKey ==
    /\ pc = "start"
    /\ self \in ScaleDegrees
    /\ other = None
    /\ numeral_str = ""
    /\ key \in Keys
    /\ obj = None
    /\ ret = None

\* spc = key.find_spc(degree=self, key=key)
FindSpc ==
    /\ pc = "start"
    /\ obj' = Spc(Key_find_spc(self, key))
    /\ pc' = "Key.find_spc"
    /\ UNCHANGED <<self, other, numeral_str, key, ret>>

\* key.find_degree(spc)
FindDegree ==
    /\ pc = "Key.find_spc"
    /\ ret' = Key_find_degree(key, obj.fifths)
    /\ pc' = "Key.find_degree"
    /\ UNCHANGED <<self, other, numeral_str, key, obj>>

NextKey == FindSpc \/ FindDegree

SpecKey == InitKey /\ [][NextKey]_vars

\* C14: for every key k and every degree d with number in 1..7,
\* k.find_degree(k.find_spc(d)) = d; degree 1 with alteration 0 maps to the
\* tonic and back.
C14_FindDegreeInvertsFindSpc ==
    /\ pc = "Key.find_degree" => ret = self
    /\ (pc \in {"Key.find_spc", "Key.find_degree"} /\ self = Degree(1, 0)) =>
          obj.fifths = key.tonic
    /\ (pc = "Key.find_degree" /\ obj.fifths = key.tonic) => ret = Degree(1, 0)

C14_Witness ==
    /\ pc = "Key.find_degree"
    /\ key = Key(SpelledPitchClass("G"), "natural_minor")
    /\ self = Degree(6, 1)
    /\ obj = Spc(SpelledPitchClass("E"))
    /\ ret = Degree(6, 1)

(***************************************************************************)
(* harmonytypes/numeral.py: Numeral.from_df.  The values a cell of the     *)
(* table row can hold: str, float (NaN included), tuple, int, None.        *)
(***************************************************************************)
PyInt(n) == [tag |-> "int", val |-> n]

\* a finite float, in tenths (25 is 2.5)
PyFloat(tenths) == [tag |-> "float", nan |-> FALSE, tenths |-> tenths]

NaN == [tag |-> "float", nan |-> TRUE, tenths |-> 0]

PyTuple(items) == [tag |-> "tuple", items |-> items]

PyList(items) == [tag |-> "list", items |-> items]

\* math.isnan(x) for a float x
IsNaN(v) == v.tag = "float" /\ v.nan

\* int(s) for a str over digits, '-', ',' and letters: an optional sign and
\* one or more digits, ValueError otherwise
IntOfStr(s) ==
    LET body == IF CharAt(s, 1) = "-" THEN SubSeq(s, 2, Len(s)) ELSE s
    IN  IF body = "" \/ \E i \in 1..Len(body) : CharAt(body, i) \notin Digits
        THEN Error("ValueError")
        ELSE PyInt(IF CharAt(s, 1) = "-" THEN -IntOf(body) ELSE IntOf(body))

\* int(x): truncation toward zero for a float, ValueError for NaN and for a
\* str that is no integer literal, TypeError for a tuple or None
Py_int(x) ==
    IF x.tag = "int" THEN x
    ELSE IF x.tag = "float"
    THEN IF x.nan THEN Error("ValueError")
         ELSE PyInt(IF x.tenths >= 0 THEN x.tenths \div 10 ELSE -((-x.tenths) \div 10))
    ELSE IF x.tag = "str" THEN IntOfStr(x.text)
    ELSE Error("TypeError")

\* s.split(',')
RECURSIVE Split(_)
Split(s) ==
    IF Contains(s, ",")
    THEN LET i == CHOOSE i \in 1..Len(s) :
                      CharAt(s, i) = "," /\ ~Contains(SubSeq(s, 1, i - 1), ",")
         IN  <<SubSeq(s, 1, i - 1)>> \o Split(SubSeq(s, i + 1, Len(s)))
    ELSE <<s>>

\* [int(x) for x in items]: the list, or the error of the first item that fails
IntsOf(items) ==
    LET conv == [i \in DOMAIN items |-> Py_int(items[i])]
        bad == {i \in DOMAIN items : IsError(conv[i])}
    IN  IF bad # {} THEN conv[CHOOSE i \in bad : \A j \in bad : i <= j]
        ELSE PyList(conv)

standardize_input_nanAsFloat(my_input) ==
    IF my_input.tag = "float" THEN
        IF IsError(Py_int(my_input)) THEN Py_int(my_input)
        ELSE PyList(<<Py_int(my_input)>>)
    ELSE IF my_input.tag = "tuple" THEN PyList(my_input.items)
    ELSE IF my_input.tag = "str"
    THEN LET parts == Split(my_input.text)
         IN  IntsOf([i \in DOMAIN parts |-> Str(parts[i])])
    ELSE Error("TypeError")

\* standardize_input, the helper nested in from_df
standardize_input(my_input) ==
    IF IsNaN(my_input) THEN PyList(<<>>)
    ELSE IF my_input.tag = "float" THEN PyList(<<Py_int(my_input)>>)
    ELSE IF my_input.tag = "tuple" THEN PyList(my_input.items)
    ELSE IF my_input.tag = "str"
    THEN LET parts == Split(my_input.text)
         IN  IntsOf([i \in DOMAIN parts |-> Str(parts[i])])
    ELSE Error("TypeError")

\* harmonytypes.quality.TertianHarmonyQuality: the chord-type codes of the
\* lookup table and whether the stack starts with a major third
ChordTypesMajorThird == {"M", "+", "Mm7", "MM7", "+7", "+M7"}

ChordTypesMinorThird == {"m", "o", "mm7", "mM7", "o7", "%7"}

TertianHarmonyQuality(chord_type) ==
    [tag |-> "TertianHarmonyQuality", chord_type |-> chord_type]

\* TertianHarmonyQuality.from_chord_type_str
TertianHarmonyQuality_from_chord_type_str(chord_type) ==
    IF chord_type.tag = "str"
         /\ chord_type.text \in ChordTypesMajorThird \cup ChordTypesMinorThird
    THEN TertianHarmonyQuality(chord_type.text)
    ELSE Error("UnknownChordTypeError")

\* TertianHarmonyQuality.major_minor_mode
TertianHarmonyQuality_major_minor_mode(q) ==
    IF q.chord_type \in ChordTypesMajorThird THEN "major" ELSE "natural_minor"

\* Degree.from_fifth(x, mode): the degree that lies x fifths from the tonic of
\* a key of that mode
Degree_from_fifth(x, mode) == Key_find_degree(Key(0, mode), x)

\* Key.find_spc(key=local_key, degree=Degree.from_fifth(x, mode=local_key.mode))
SpcOfFifth(x, local_key) ==
    Key_find_spc(Degree_from_fifth(x, local_key.mode), local_key)

\* one row of the table
Row(globalkey, localkey, chord, chord_type, chord_tones, added_tones, root, bass_note) ==
    [tag |-> "Row", globalkey |-> globalkey, localkey |-> localkey, chord |-> chord,
     chord_type |-> chord_type, chord_tones |-> chord_tones,
     added_tones |-> added_tones, root |-> root, bass_note |-> bass_note]

\* the tones of lines 159-160, or the error raised there
Numeral_from_df_tones(df_row) ==
    LET chord_tones == standardize_input(df_row.chord_tones)
        added_tones == standardize_input(df_row.added_tones)
    IN  IF IsError(chord_tones) THEN chord_tones
        ELSE IF IsError(added_tones) THEN added_tones
        ELSE IntsOf(chord_tones.items \o added_tones.items)

\* cls(...) of lines 169-175 with the pitch classes of lines 161-167
Numeral_rootInGlobalKey(chord_str, global_key, local_key, harmony_quality, tones, root, bass) ==
    [tag |-> "Numeral", numeral_string |-> chord_str, global_key |-> global_key,
     local_key |-> local_key, harmony_quality |-> harmony_quality,
     spcs |-> [i \in DOMAIN tones |-> SpcOfFifth(tones[i].val, local_key)],
     root |-> SpcOfFifth(root, global_key),
     bass |-> SpcOfFifth(bass, global_key)]

Numeral(chord_str, global_key, local_key, harmony_quality, tones, root, bass) ==
    [tag |-> "Numeral", numeral_string |-> chord_str, global_key |-> global_key,
     local_key |-> local_key, harmony_quality |-> harmony_quality,
     spcs |-> [i \in DOMAIN tones |-> SpcOfFifth(tones[i].val, local_key)],
     root |-> SpcOfFifth(root, local_key),
     bass |-> SpcOfFifth(bass, local_key)]

\* Numeral.from_df: the Numeral, or the first error raised on the way
Numeral_from_df(df_row) ==
    LET global_key == Key_from_string(df_row.globalkey.text)
        local_key == Numeral_from_df_local_key(df_row.localkey.text, global_key)
        harmony_quality == TertianHarmonyQuality_from_chord_type_str(df_row.chord_type)
        tones == Numeral_from_df_tones(df_row)
        root == Py_int(df_row.root)
        bass == Py_int(df_row.bass_note)
    IN  IF IsError(local_key) THEN local_key
        ELSE IF IsError(harmony_quality) THEN harmony_quality
        ELSE IF IsError(tones) THEN tones
        ELSE IF IsError(root) THEN root
        ELSE IF IsError(bass) THEN bass
        ELSE Numeral(df_row.chord.text, global_key, local_key, harmony_quality,
                     tones.items, root.val, bass.val)

\* [x for x in spcs if x not in scale]
RECURSIVE NotIn(_, _)
NotIn(spcs, scale) ==
    IF spcs = <<>> THEN <<>>
    ELSE (IF \E n \in DOMAIN scale : scale[n] = Head(spcs) THEN <<>> ELSE <<Head(spcs)>>)
           \o NotIn(Tail(spcs), scale)

Numeral_non_diatonic_spcs_ofLocalKey(numeral, reference_key) ==
    NotIn(numeral.spcs, Key_get_scale(numeral.local_key))

\* Numeral.non_diatonic_spcs
Numeral_non_diatonic_spcs(numeral, reference_key) ==
    NotIn(numeral.spcs, Key_get_scale(reference_key))

\* Numeral.key_if_tonicized
Numeral_key_if_tonicized(numeral) ==
    Key(numeral.root, TertianHarmonyQuality_major_minor_mode(numeral.harmony_quality))

(***************************************************************************)
(* metrics.py                                                              *)
(***************************************************************************)
d5th_reversed(reference_tone, other_tone) == reference_tone - other_tone

\* d5th: reference_tone.interval_to(other).fifths()
d5th(reference_tone, other_tone) == other_tone - reference_tone

\* sum(list)
RECURSIVE Sum(_)
Sum(xs) == IF xs = <<>> THEN 0 ELSE Head(xs) + Sum(Tail(xs))

\* pc_content_index
pc_content_index(numeral, nd_ref_key, d5th_ref_tone) ==
    LET non_diatonic_spcs == Numeral_non_diatonic_spcs(numeral, nd_ref_key)
    IN  Sum([i \in DOMAIN non_diatonic_spcs |->
                d5th(d5th_ref_tone, non_diatonic_spcs[i])])

\* ChromaticIndex_Def2.within_chord_ci
ChromaticIndex_Def2_within_chord_ci(numeral) ==
    LET non_diatonic_spcs ==
            Numeral_non_diatonic_spcs(numeral, Numeral_key_if_tonicized(numeral))
    IN  Sum([i \in DOMAIN non_diatonic_spcs |->
                d5th(Numeral_key_if_tonicized(numeral).tonic, non_diatonic_spcs[i])])

(***************************************************************************)
(* The call sites of metrics.test and metrics.test1: a Numeral built by    *)
(* Numeral.from_df from one row, then non_diatonic_spcs, pc_content_index  *)
(* or within_chord_ci on it.                                               *)
(***************************************************************************)
GlobalKeyCells == {Str("C"), Str("g")}

LocalKeyCells == {Str("I"), Str("V"), Str("vi")}

ChordTypeCells == {Str("Mm7"), Str("m"), NaN}

ChordTonesCells ==
    {Str("0,4,1"), Str("1,5,2,-1"), Str("0,-3,1"), Str("0,x"), NaN, PyFloat(20),
     PyTuple(<<PyInt(0), PyInt(4), PyInt(1)>>), PyInt(3)}

AddedTonesCells == {NaN, Str("2"), PyFloat(-25), None}

RootCells == {PyInt(0), PyFloat(10), NaN, Str("0,4")}

BassNoteCells == {PyInt(0), PyInt(4), PyFloat(-30), NaN}

Rows ==
    {Row(g, l, Str("V7"), t, c, a, r, b) :
        g \in GlobalKeyCells, l \in LocalKeyCells, t \in ChordTypeCells,
        c \in ChordTonesCells, a \in AddedTonesCells, r \in RootCells,
        b \in BassNoteCells}

InitNumeral ==
    /\ pc = "start"
    /\ self \in Rows
    /\ other = None
    /\ numeral_str = ""
    /\ key = None
    /\ obj = None
    /\ ret = None

\* numeral = Numeral.from_df(df_row)
FromDf ==
    /\ pc = "start"
    /\ obj' = Numeral_from_df(self)
    /\ pc' = IF IsError(obj') THEN "raised" ELSE "Numeral"
    /\ UNCHANGED <<self, other, numeral_str, key, ret>>

\* the keys the call sites pass as reference key
ReferenceKeys(numeral) ==
    {numeral.global_key, numeral.local_key, Numeral_key_if_tonicized(numeral)}

\* numeral.non_diatonic_spcs(reference_key=key)
NonDiatonicSpcs ==
    /\ pc = "Numeral"
    /\ key' \in ReferenceKeys(obj)
    /\ ret' = PyList(Numeral_non_diatonic_spcs(obj, key'))
    /\ pc' = "non_diatonic_spcs"
    /\ UNCHANGED <<self, other, numeral_str, obj>>

\* pc_content_index(numeral, nd_ref_key=key, d5th_ref_tone=other)
PcContentIndex ==
    /\ pc = "Numeral"
    /\ key' \in ReferenceKeys(obj)
    /\ other' \in {Spc(k.tonic) : k \in ReferenceKeys(obj)}
    /\ ret' = PyInt(pc_content_index(obj, key', other'.fifths))
    /\ pc' = "pc_content_index"
    /\ UNCHANGED <<self, numeral_str, obj>>

\* ChromaticIndex_Def2.within_chord_ci(numeral)
WithinChordCi ==
    /\ pc = "Numeral"
    /\ ret' = PyInt(ChromaticIndex_Def2_within_chord_ci(obj))
    /\ pc' = "within_chord_ci"
    /\ UNCHANGED <<self, other, numeral_str, key, obj>>

NextNumeral ==
    \/ FromDf
    \/ NonDiatonicSpcs
    \/ PcContentIndex
    \/ WithinChordCi

SpecNumeral == InitNumeral /\ [][NextNumeral]_vars

\* x in xs
InSeq(x, xs) == \E i \in DOMAIN xs : xs[i] = x

\* the integers of the row's chord_tones and added_tones cells
ToneValues(df_row) ==
    LET tones == Numeral_from_df_tones(df_row).items
    IN  {tones[i].val : i \in DOMAIN tones}

\* C15 as stated: every Numeral built by from_df whose pitch-class set is
\* non-empty has its root and its bass in that set.
C15_RootAndBassInSpcs ==
    (pc = "Numeral" /\ obj.spcs # <<>>) =>
        InSeq(obj.root, obj.spcs) /\ InSeq(obj.bass, obj.spcs)

\* C15 amended: a Numeral built by from_df has its root (its bass) in its
\* pitch-class set exactly when the row's root (bass_note) value is one of the
\* row's chord_tones and added_tones values.
C15_RootAndBassInSpcsIffAmongTones ==
    pc = "Numeral" =>
        /\ InSeq(obj.root, obj.spcs) <=> Py_int(self.root).val \in ToneValues(self)
        /\ InSeq(obj.bass, obj.spcs) <=> Py_int(self.bass_note).val \in ToneValues(self)

C15_Witness ==
    /\ pc = "Numeral"
    /\ obj.local_key # obj.global_key
    /\ Len(obj.spcs) = 4
    /\ InSeq(obj.root, obj.spcs)
    /\ InSeq(obj.bass, obj.spcs)
    /\ obj.root # obj.bass

\* a str of comma-separated integer literals
IsCommaInts(v) ==
    /\ v.tag = "str"
    /\ \A i \in DOMAIN Split(v.text) : ~IsError(IntOfStr(Split(v.text)[i]))

\* the cell kinds the claim names: comma-separated integers, a single float,
\* a tuple, NaN
IsToneCell(v) == IsCommaInts(v) \/ v.tag \in {"float", "tuple"}

\* how many integers a cell of those kinds holds
CellSize(v) ==
    IF IsNaN(v) THEN 0
    ELSE IF v.tag = "float" THEN 1
    ELSE IF v.tag = "tuple" THEN Len(v.items)
    ELSE Len(Split(v.text))

HasOtherType(v) == v.tag \notin {"str", "float", "tuple"}

KnownChordType == ~IsError(TertianHarmonyQuality_from_chord_type_str(self.chord_type))

\* C16 as stated: from_df normalizes each of chord_tones, added_tones, root and
\* bass_note, given as comma-separated integers, a float, a tuple or NaN, to a
\* list of ints, NaN giving the empty list and no error; a cell of any other
\* type raises TypeError.
C16_FourFieldsNormalized ==
    (pc \in {"Numeral", "raised"} /\ KnownChordType) =>
        /\ (\A f \in {"chord_tones", "added_tones", "root", "bass_note"} :
                IsToneCell(self[f])) => pc = "Numeral"
        /\ (/\ \E f \in {"chord_tones", "added_tones", "root", "bass_note"} :
                    HasOtherType(self[f])
            /\ \A f \in {"chord_tones", "added_tones", "root", "bass_note"} :
                    HasOtherType(self[f]) \/ IsToneCell(self[f]))
               => obj = Error("TypeError")

\* C16 amended: from_df normalizes chord_tones and added_tones, given as
\* comma-separated integers, a finite float, a tuple or NaN, to a list of ints,
\* NaN giving the empty list and no error, any other type raising TypeError;
\* root and bass_note are converted with int() to one int each, so NaN there
\* raises ValueError, as does a comma-separated list.
C16_ToneFieldsNormalized ==
    (pc \in {"Numeral", "raised"} /\ KnownChordType) =>
        LET tonesOk == IsToneCell(self.chord_tones) /\ IsToneCell(self.added_tones)
            IsIntCell(v) == v.tag = "int" \/ (v.tag = "float" /\ ~v.nan)
        IN  /\ pc = "Numeral" =>
                /\ tonesOk
                /\ Len(obj.spcs) = CellSize(self.chord_tones) + CellSize(self.added_tones)
            /\ (tonesOk /\ IsIntCell(self.root) /\ IsIntCell(self.bass_note)) =>
                   pc = "Numeral"
            /\ HasOtherType(self.chord_tones) => obj = Error("TypeError")
            /\ (IsToneCell(self.chord_tones) /\ HasOtherType(self.added_tones)) =>
                   obj = Error("TypeError")
            /\ (tonesOk /\ (IsNaN(self.root)
                              \/ (IsCommaInts(self.root) /\ CellSize(self.root) > 1))) =>
                   obj = Error("ValueError")
            /\ (tonesOk /\ IsIntCell(self.root) /\ IsNaN(self.bass_note)) =>
                   obj = Error("ValueError")

C16_Witness ==
    /\ pc = "Numeral"
    /\ IsNaN(self.chord_tones)
    /\ self.added_tones = PyFloat(-25)
    /\ self.root.tag = "float"
    /\ obj.spcs = <<obj.local_key.tonic - 2>>

\* the pitch classes of a key's scale, as a set
ScaleSet(k) == {k.tonic + ScaleSteps(k.mode)[n] : n \in 1..7}

\* the positions of the numeral's pitch classes that are outside the scale of k
NonDiatonicPositions(numeral, k) ==
    {i \in DOMAIN numeral.spcs : numeral.spcs[i] \notin ScaleSet(k)}

\* the k-th smallest member of a set of positions
Kth(positions, k) ==
    CHOOSE i \in positions : Cardinality({j \in positions : j <= i}) = k

\* C17: non_diatonic_spcs(reference_key) returns exactly the elements of the
\* numeral's pitch-class set that are not in reference_key's scale, in their
\* original order, and leaves the numeral unchanged; the result is empty when
\* every pitch class is in the scale.
C17_NonDiatonicSpcs ==
    [][pc' = "non_diatonic_spcs" =>
          LET positions == NonDiatonicPositions(obj, key')
              result == ret'.items
          IN  /\ obj' = obj
              /\ Len(result) = Cardinality(positions)
              /\ \A k \in 1..Len(result) : result[k] = obj.spcs[Kth(positions, k)]
              /\ (\A i \in DOMAIN obj.spcs : obj.spcs[i] \in ScaleSet(key'))
                    => result = <<>>]_vars

C17_Witness ==
    /\ pc = "non_diatonic_spcs"
    /\ Len(obj.spcs) = 4
    /\ Len(ret.items) = 2
    /\ ret.items[1] # ret.items[2]
    /\ key # obj.local_key
    /\ NonDiatonicPositions(obj, key) # NonDiatonicPositions(obj, obj.local_key)

\* the sum of the signed line-of-fifths distances from tone ref to the pitch
\* classes at the given positions
RECURSIVE SumOfDistances(_, _, _)
SumOfDistances(spcs, positions, ref) ==
    IF positions = {} THEN 0
    ELSE LET i == CHOOSE i \in positions : TRUE
         IN  (spcs[i] - ref) + SumOfDistances(spcs, positions \ {i}, ref)

\* C18: pc_content_index(numeral, nd_ref_key, ref_tone) is the sum, over the
\* pitch classes of the numeral that are non-diatonic in nd_ref_key, of the
\* signed line-of-fifths distance from ref_tone to the pitch class, positive
\* toward the sharp side (-2 for Bb from C); it is 0 when there is no
\* non-diatonic pitch class; within_chord_ci is the same sum taken with the
\* numeral's tonicized key and that key's tonic.
C18_PcContentIndex ==
    /\ pc = "pc_content_index" =>
          /\ ret = PyInt(SumOfDistances(obj.spcs, NonDiatonicPositions(obj, key),
                                        other.fifths))
          /\ NonDiatonicPositions(obj, key) = {} => ret = PyInt(0)
          /\ (other = Spc(SpelledPitchClass("C"))
                /\ NonDiatonicPositions(obj, key) # {}
                /\ \A i \in NonDiatonicPositions(obj, key) :
                       obj.spcs[i] = SpelledPitchClass("Bb"))
                => ret = PyInt(-2 * Cardinality(NonDiatonicPositions(obj, key)))
    /\ pc = "within_chord_ci" =>
          LET k == Key(obj.root,
                       TertianHarmonyQuality_major_minor_mode(obj.harmony_quality))
          IN  ret = PyInt(SumOfDistances(obj.spcs, NonDiatonicPositions(obj, k), k.tonic))

C18_Witness ==
    /\ pc = "pc_content_index"
    /\ other = Spc(SpelledPitchClass("C"))
    /\ key = Key_from_string("C")
    /\ ret = PyInt(-2)
    /\ Len(obj.spcs) = 4
    /\ obj.spcs[4] = SpelledPitchClass("Bb")

(***************************************************************************)
(* NumeralChain.parse call by call: self is the numeral_str argument of    *)
(* the innermost call, other the stack of the left-hand strings of the     *)
(* calls waiting for their tail, obj the value the last finished call      *)
(* returned.                                                               *)
(***************************************************************************)
SplitAtFirstSlash_keepsSeparator(s) ==
    [L |-> SubSeq(s, 1, FirstSlash(s) - 1), R |-> SubSeq(s, FirstSlash(s), Len(s))]

\* numeral_str.split("/", maxsplit=1)
SplitAtFirstSlash(s) ==
    [L |-> SubSeq(s, 1, FirstSlash(s) - 1), R |-> SubSeq(s, FirstSlash(s) + 1, Len(s))]

\* the strings parse is called on: segments joined by at most n separators
ParseSegments == {"V", "ii", "bII", ""}

RECURSIVE ParseStrings(_)
ParseStrings(n) ==
    IF n = 0 THEN ParseSegments
    ELSE ParseStrings(n - 1)
           \cup {a \o "/" \o r : a \in ParseSegments, r \in ParseStrings(n - 1)}

InitParse ==
    /\ pc = "call"
    /\ numeral_str \in ParseStrings(MaxSeps)
    /\ key \in Keys
    /\ self = Str(numeral_str)
    /\ other = <<>>
    /\ obj = None
    /\ ret = None

\* "/" in numeral_str: split and call parse on the right-hand string
Descend ==
    /\ pc = "call"
    /\ Contains(self.text, "/")
    /\ other' = Append(other, SplitAtFirstSlash(self.text).L)
    /\ self' = Str(SplitAtFirstSlash(self.text).R)
    /\ UNCHANGED <<pc, numeral_str, key, obj, ret>>

\* no "/": the terminal node is built and the call returns, or from_string
\* raises and the exception unwinds every waiting call
Terminal ==
    /\ pc = "call"
    /\ ~Contains(self.text, "/")
    /\ obj' = ChainEnd(self.text, key)
    /\ pc' = IF IsError(obj') THEN "raised" ELSE "return"
    /\ UNCHANGED <<self, other, numeral_str, key, ret>>

\* the innermost waiting call gets its tail, builds its node and returns
Resume ==
    /\ pc = "return"
    /\ other # <<>>
    /\ obj' = ChainNode(other[Len(other)], obj, key)
    /\ other' = SubSeq(other, 1, Len(other) - 1)
    /\ pc' = IF IsError(obj') THEN "raised" ELSE "return"
    /\ UNCHANGED <<self, numeral_str, key, ret>>

\* the outermost call has returned
Finish ==
    /\ pc = "return"
    /\ other = <<>>
    /\ ret' = obj
    /\ pc' = "done"
    /\ UNCHANGED <<self, other, numeral_str, key, obj>>

NextParse == Descend \/ Terminal \/ Resume \/ Finish

SpecParse == InitParse /\ [][NextParse]_vars

\* the interpreter always takes the next step of a running call
SpecParseLive == SpecParse /\ WF_vars(NextParse)

\* C19: NumeralChain.parse terminates for every string: each recursive call
\* receives the remainder after the first "/", strictly shorter than its
\* input, and the recursion depth is the number of "/" in the string.
C19_ParseTerminates ==
    /\ <>(pc \in {"done", "raised"})
    /\ [][pc' = "call" =>
             /\ Len(self'.text) < Len(self.text)
             /\ self'.text = SubSeq(self.text, FirstSlash(self.text) + 1, Len(self.text))
             /\ Len(other') = Len(other) + 1]_vars
    /\ [][(pc = "call" /\ pc' # "call") =>
             Len(other) = CountSlashes(numeral_str)]_vars
    /\ [](Len(other) <= CountSlashes(numeral_str))
    /\ [](pc = "done" => ret = NumeralChain_parse(numeral_str, key))

C19_Witness ==
    /\ pc = "return"
    /\ numeral_str = "ii/V/V"
    /\ Len(other) = 1
    /\ obj = NumeralChain_parse("V/V", key)

(***************************************************************************)
(* harmony/generics.py: Sequential                                         *)
(***************************************************************************)
Sequential(seq) == [tag |-> "Sequential", _seq |-> seq]

\* type(x)
TypeOf(x) == x.tag

\* seq[i:j] for 0 <= i <= j, clamped to the length of seq
Slice(seq, i, j) ==
    LET hi == IF j < Len(seq) THEN j ELSE Len(seq)
    IN  IF i >= hi THEN <<>> ELSE SubSeq(seq, i + 1, hi)

\* Sequential.from_sequence
Sequential_from_sequence(sequence) ==
    IF sequence = <<>> THEN Error("IndexError")
    ELSE LET first_object_type == TypeOf(sequence[1])
             type_check_pass ==
                 \A i \in DOMAIN sequence : TypeOf(sequence[i]) = first_object_type
         IN  IF ~type_check_pass THEN Error("TypeError") ELSE Sequential(sequence)

Sequential_get_n_grams_dropsLast(slf, n) ==
    LET length == Len(slf._seq)
        n_grams == [k \in 1..(length - n) |-> PyTuple(Slice(slf._seq, k - 1, k - 1 + n))]
    IN  Sequential_from_sequence(n_grams)

\* Sequential.get_n_grams, for n >= 0; range(length - n + 1) is i = 0..length-n
Sequential_get_n_grams(slf, n) ==
    LET length == Len(slf._seq)
        n_grams == [k \in 1..(length - n + 1) |->
                       PyTuple(Slice(slf._seq, k - 1, k - 1 + n))]
    IN  Sequential_from_sequence(n_grams)

(***************************************************************************)
(* The Sequential call sites: Sequential.from_sequence(other), then        *)
(* get_n_grams(n) on the result.                                           *)
(***************************************************************************)
SequenceElements == {PyInt(1), PyInt(2), Str("a"), Str("b")}

RECURSIVE SequencesOf(_)
SequencesOf(n) ==
    IF n = 0 THEN {<<>>}
    ELSE SequencesOf(n - 1)
           \cup {Append(s, x) : s \in SequencesOf(n - 1), x \in SequenceElements}

InitSequential ==
    /\ pc = "start"
    /\ self = None
    /\ other \in {PyList(s) : s \in SequencesOf(MaxSeqLen)}
    /\ numeral_str = ""
    /\ key = None
    /\ obj = None
    /\ ret = None

\* self = Sequential.from_sequence(sequence=other)
FromSequence ==
    /\ pc = "start"
    /\ self' = Sequential_from_sequence(other.items)
    /\ pc' = IF IsError(self') THEN "raised" ELSE "Sequential"
    /\ UNCHANGED <<other, numeral_str, key, obj, ret>>

\* self.get_n_grams(n), n kept in obj
GetNGrams ==
    /\ pc = "Sequential"
    /\ \E n \in 0..(MaxSeqLen + 1) :
          /\ obj' = PyInt(n)
          /\ ret' = Sequential_get_n_grams(self, n)
    /\ pc' = "get_n_grams"
    /\ UNCHANGED <<self, other, numeral_str, key>>

NextSequential == FromSequence \/ GetNGrams

SpecSequential == InitSequential /\ [][NextSequential]_vars

\* C20: for a Sequential over a sequence of length L of elements of one type
\* and 1 <= n <= L, get_n_grams(n) returns a Sequential of exactly L-n+1
\* tuples, the i-th (from 0) holding elements i..i+n-1 in order, and the
\* original sequence is unchanged.
C20_NGramsAreWindows ==
    [][(pc' = "get_n_grams" /\ obj'.val \in 1..Len(self._seq)) =>
          LET L == Len(self._seq)
              n == obj'.val
          IN  /\ ret'.tag = "Sequential"
              /\ Len(ret'._seq) = L - n + 1
              /\ \A i \in 0..(L - n) :
                    ret'._seq[i + 1] = PyTuple([k \in 1..n |-> self._seq[i + k]])
              /\ self' = self
              /\ self'._seq = other.items]_vars

C20_Witness ==
    /\ pc = "get_n_grams"
    /\ obj = PyInt(2)
    /\ self = Sequential(<<Str("a"), Str("b"), Str("a")>>)
    /\ ret = Sequential(<<PyTuple(<<Str("a"), Str("b")>>), PyTuple(<<Str("b"), Str("a")>>)>>)

=============================================================================
